---------------------------- MODULE Spec2Model ----------------------------
(***************************************************************************)
(* The local identifier cache (ScalewayCache) of the Scaleway client:      *)
(* the five per-kind tables, the Modified flag, the cache file and the     *)
(* per-kind resolvers.                                                     *)
(*                                                                         *)
(* A Go string is modelled as a sequence of characters, each character a   *)
(* one-letter TLA+ string.  Two characters have longer spellings:          *)
(* "xFF" is a byte that is not valid UTF-8 and "uFFFD" is the Unicode      *)
(* replacement rune.                                                       *)
(***************************************************************************)
EXTENDS Integers, Sequences, FiniteSets, TLC

(***************************************************************************)
(* Cache fields (const block "cache fields").                              *)
(***************************************************************************)
REGION == 0
ARCH == 1
OWNER == 2
TITLE == 3
MAXFIELD == 4

(***************************************************************************)
(* Type keys of the cached objects (1 << iota).                            *)
(***************************************************************************)
IdentifierUnknown == 1
IdentifierServer == 2
IdentifierImage == 4
IdentifierSnapshot == 8
IdentifierBootscript == 16
IdentifierVolume == 32

\* the five tables of a ScalewayCache, named by the type key of their objects
Kinds ==
  {IdentifierServer, IdentifierImage, IdentifierSnapshot,
   IdentifierBootscript, IdentifierVolume}

(***************************************************************************)
(* Bounds of the model.                                                    *)
(***************************************************************************)
\* the most records the five tables hold together in the persistence model
MaxRecords == 2
\* the most records of the table a resolver scans in the resolver model
MaxTable == 2

(***************************************************************************)
(* Strings.                                                                *)
(***************************************************************************)
EmptyString == <<>>

BadByte == "xFF"
ReplacementChar == "uFFFD"

RECURSIVE Rep(_, _)
\* n copies of the character c
Rep(c, n) == IF n = 0 THEN <<>> ELSE <<c>> \o Rep(c, n - 1)

\* strings.HasPrefix
HasPrefix(s, prefix) ==
  /\ Len(prefix) <= Len(s)
  /\ \A i \in 1..Len(prefix) : s[i] = prefix[i]

\* every byte sequence of the string is valid UTF-8
ValidUTF8(s) == \A i \in 1..Len(s) : s[i] # BadByte

\* a [MAXFIELD]string
Fields(region, arch, owner, name) ==
  [i \in 0..(MAXFIELD - 1) |->
     CASE i = REGION -> region
       [] i = ARCH -> arch
       [] i = OWNER -> owner
       [] OTHER -> name]

\* the zero value of [MAXFIELD]string
ZeroFields == [i \in 0..(MAXFIELD - 1) |-> EmptyString]

\* make(map[string][MAXFIELD]string)
EmptyMap == [x \in {} |-> ZeroFields]

\* the five tables of a new ScalewayCache
EmptyTables == [k \in Kinds |-> EmptyMap]

\* c[identifier] = fields
MapSet(m, identifier, fields) ==
  [x \in DOMAIN m \cup {identifier} |-> IF x = identifier THEN fields ELSE m[x]]

\* delete(c, identifier)
MapDelete(m, identifier) == [x \in DOMAIN m \ {identifier} |-> m[x]]

\* the number of records of the five tables together
NbRecords(tables) ==
  Cardinality(UNION {{<<k, x>> : x \in DOMAIN tables[k]} : k \in Kinds})

(***************************************************************************)
(* encoding/json, as far as a ScalewayCache uses it.                       *)
(***************************************************************************)
\* a string as the encoder writes it: invalid UTF-8 becomes U+FFFD
Coerce(s) ==
  [i \in 1..Len(s) |-> IF s[i] = BadByte THEN ReplacementChar ELSE s[i]]

\* one table as the encoder writes it and a decoder reads it back: keys and
\* fields are coerced; of two keys that coerce to the same key one survives
EncodeMap(m) ==
  [key \in {Coerce(x) : x \in DOMAIN m} |->
     LET x == CHOOSE y \in DOMAIN m : Coerce(y) = key
     IN  [i \in 0..(MAXFIELD - 1) |-> Coerce(m[x][i])]]

\* Encode, had the Bootscripts field no json name the decoder knows
EncodeLossy(tables) ==
  [fmt |-> "json",
   doc |-> [k \in Kinds \ {IdentifierBootscript} |-> EncodeMap(tables[k])]]

\* the document encoder.Encode(*c) writes: the five tables (Path, Modified and
\* Lock are tagged json:"-")
Encode(tables) == [fmt |-> "json", doc |-> [k \in Kinds |-> EncodeMap(tables[k])]]

\* The cache file.  fmt is "absent" (no file), "empty" (a file of no bytes),
\* "garbage" (not JSON), "old" (JSON of the older version: every table maps an
\* identifier to a name, not to an array) or "json" (the current layout).
\* doc maps the type keys of the tables the document has to their content.
NoFile == [fmt |-> "absent", doc |-> <<>>]
EmptyFile == [fmt |-> "empty", doc |-> <<>>]
GarbageFile == [fmt |-> "garbage", doc |-> <<>>]

\* json.Unmarshal(file, &cache) on a zero cache: err and the tables it leaves.
\* A table never set stays nil.  A syntax error is found before anything is
\* stored; a value of the wrong type is reported at the end, after its key was
\* stored with the zero array.
Unmarshal(file) ==
  CASE file.fmt = "json" ->
         [err |-> FALSE,
          nil |-> Kinds \ DOMAIN file.doc,
          tables |-> [k \in Kinds |->
                        IF k \in DOMAIN file.doc THEN file.doc[k] ELSE EmptyMap]]
    [] file.fmt = "old" ->
         [err |-> \E k \in DOMAIN file.doc : DOMAIN file.doc[k] # {},
          nil |-> Kinds \ DOMAIN file.doc,
          tables |-> [k \in Kinds |->
                        IF k \in DOMAIN file.doc
                          THEN [x \in DOMAIN file.doc[k] |-> ZeroFields]
                          ELSE EmptyMap]]
    [] OTHER ->
         [err |-> TRUE, nil |-> Kinds, tables |-> EmptyTables]


(***************************************************************************)
(* The inputs the persistence model draws from.                            *)
(***************************************************************************)
Par1 == <<"p", "a", "r", "1">>
Ams1 == <<"a", "m", "s", "1">>
X86 == <<"x", "8", "6">>
Me == <<"m", "e">>
Web == <<"w", "e", "b">>
\* a name that is not valid UTF-8
WebBad == <<"w", "e", "b", BadByte>>

\* identifiers handed to Insert<Kind> and Remove<Kind>
StoreIds == {<<"i", "d", "1">>, <<"i", "d", "2">>}

\* (region, arch, owner, name) handed to Insert<Kind>: two that differ in the
\* region only and one of another name
InsertArgs == {<<Par1, X86, Me, Web>>, <<Ams1, X86, Me, Web>>, <<Par1, X86, Me, WebBad>>}

\* a cache file of the older version, with one server
OldFile ==
  [fmt |-> "old",
   doc |-> [k \in {IdentifierServer} |-> [x \in {<<"i", "d", "1">>} |-> Web]]]

\* a cache file of the current layout that has two of the five tables
PartialFile ==
  [fmt |-> "json",
   doc |-> [k \in {IdentifierServer, IdentifierImage} |->
              IF k = IdentifierServer
                THEN [x \in {<<"i", "d", "2">>} |-> Fields(Par1, X86, Me, Web)]
                ELSE EmptyMap]]

\* what the cache file may be when the program starts
InitialFiles == {NoFile, EmptyFile, GarbageFile, OldFile, PartialFile}

\* filepath.Join(homeDir, ".scw-cache.db")
CachePath == "~/.scw-cache.db"
\* the zero value of Path
NoPath == ""

(***************************************************************************)
(* The state.                                                              *)
(***************************************************************************)
VARIABLES
  loaded,    \* the process holds a ScalewayCache
  cache,     \* its five tables, by type key
  Modified,  \* its Modified flag
  Path,      \* its Path
  disk,      \* the file at CachePath
  tmpFiles,  \* the number of temporary files on disk
  last,      \* the last call: its name, its arguments and what it returned
  res,       \* the results of the last resolver call
  nb,        \* the number the last GetNb<Kind>s returned
  Lock,      \* the Lock of the cache: the thread that holds it, or Unlocked
  threads,   \* for each thread of the process, the call it is in
  serial     \* the tables, the flag and the file when Lock was last released

vars ==
  <<loaded, cache, Modified, Path, disk, tmpFiles, last, res, nb, Lock,
    threads, serial>>

\* the state of the threads
conc == <<Lock, threads, serial>>

store == <<loaded, cache, Modified, Path>>

\* A call as `last` records it: its name, the type key of its table, its
\* identifier and [region, arch, owner, name], the error it returned, and
\*   hit:   Insert stored the record; Remove found the identifier;
\*          Save wrote a temporary file
\*   after: for NewScalewayCache, the name of the call before it
Call(op, kind, identifier, fields, err, hit, after) ==
  [op |-> op, kind |-> kind, id |-> identifier, fields |-> fields,
   err |-> err, hit |-> hit, after |-> after]

\* a call of no table, identifier and fields
Plain(op, err, hit) == Call(op, 0, EmptyString, ZeroFields, err, hit, "")

NoCall == Plain("none", "nil", FALSE)

\* the zero value of sync.Mutex
Unlocked == "unlocked"

\* the threads of the process
Threads == {"t1", "t2"}

\* what a thread keeps while it is in a call
NoLocal ==
  [exists |-> FALSE, fields |-> ZeroFields, order |-> <<>>, i |-> 0,
   exact |-> <<>>, res |-> <<>>, doc |-> <<>>]

\* a thread: where it is (pc), the calls it has made (n), the call it is in,
\* the block of LookUpIdentifiers it is in (at, 0 in another call) with the
\* results so far (results), its local values, and what the call returns
\* (nb of GetNb<Kind>s, res of a resolver)
Thread(pc, n, call, at, results, local, nbOut, resOut) ==
  [pc |-> pc, n |-> n, call |-> call, at |-> at, results |-> results,
   local |-> local, nb |-> nbOut, res |-> resOut]

\* serial while the calls follow one another in one thread
NoSerial == [cache |-> <<>>, Modified |-> FALSE, disk |-> <<>>]

\* a thread that is in no call and has made n calls
Idle(n) == Thread("idle", n, NoCall, 0, <<>>, NoLocal, 0, <<>>)

Init ==
  /\ loaded = FALSE
  /\ cache = EmptyTables
  /\ Modified = FALSE
  /\ Path = NoPath
  /\ disk \in InitialFiles
  /\ tmpFiles = 0
  /\ last = NoCall
  /\ res = <<>>
  /\ nb = 0
  /\ Lock = Unlocked
  /\ threads = [t \in Threads |-> Idle(0)]
  /\ serial = NoSerial

(***************************************************************************)
(* NewScalewayCache.  fault names the system call that fails, if any.      *)
(***************************************************************************)
LoadFaults == {"none", "stat", "read", "remove", "open"}

\* NewScalewayCache, did it create the cache file that is not there
LoadResultCreates(fault) ==
  LET u == Unmarshal(disk)
      made == [k \in Kinds |-> IF k \in u.nil THEN EmptyMap ELSE u.tables[k]]
      failed(file) ==
        [err |-> fault, loaded |-> FALSE, tables |-> EmptyTables,
         path |-> NoPath, disk |-> file]
  IN  IF fault = "stat" THEN failed(disk)
      ELSE IF disk.fmt = "absent"
        THEN [err |-> "nil", loaded |-> TRUE, tables |-> EmptyTables,
              path |-> CachePath, disk |-> EmptyFile]
      ELSE IF fault = "read" THEN failed(disk)
      ELSE IF ~u.err
        THEN [err |-> "nil", loaded |-> TRUE, tables |-> made,
              path |-> CachePath, disk |-> disk]
      ELSE IF fault = "remove" THEN failed(disk)
      ELSE IF fault = "open" THEN failed(NoFile)
      ELSE [err |-> "nil", loaded |-> TRUE, tables |-> made,
            path |-> NoPath, disk |-> EmptyFile]

\* what NewScalewayCache returns and leaves on disk
LoadResult(fault) ==
  LET u == Unmarshal(disk)
      made == [k \in Kinds |-> IF k \in u.nil THEN EmptyMap ELSE u.tables[k]]
      failed(file) ==
        [err |-> fault, loaded |-> FALSE, tables |-> EmptyTables,
         path |-> NoPath, disk |-> file]
  IN  IF fault = "stat" THEN failed(disk)
      ELSE IF disk.fmt = "absent"
        THEN [err |-> "nil", loaded |-> TRUE, tables |-> EmptyTables,
              path |-> CachePath, disk |-> disk]
      ELSE IF fault = "read" THEN failed(disk)
      ELSE IF ~u.err
        THEN [err |-> "nil", loaded |-> TRUE, tables |-> made,
              path |-> CachePath, disk |-> disk]
      \* fix compatibility with older version: cache = ScalewayCache{} drops
      \* the Path; the file is removed and created again, and the bytes read
      \* before are unmarshalled once more into the new cache
      ELSE IF fault = "remove" THEN failed(disk)
      ELSE IF fault = "open" THEN failed(NoFile)
      ELSE [err |-> "nil", loaded |-> TRUE, tables |-> made,
            path |-> NoPath, disk |-> EmptyFile]

NewScalewayCache ==
  \E fault \in LoadFaults :
    LET r == LoadResult(fault)
    IN  /\ loaded' = r.loaded
        /\ cache' = r.tables
        /\ Modified' = FALSE
        /\ Path' = r.path
        /\ disk' = r.disk
        /\ last' = Call("Load", 0, EmptyString, ZeroFields, r.err, FALSE, last.op)
        /\ UNCHANGED <<tmpFiles, res, nb, conc>>

(***************************************************************************)
(* Flush: os.Remove(c.Path).                                               *)
(***************************************************************************)
Flush ==
  /\ loaded
  /\ IF Path = CachePath /\ disk.fmt # "absent"
       THEN /\ disk' = NoFile
            /\ last' = Plain("Flush", "nil", FALSE)
       ELSE /\ disk' = disk
            /\ last' = Plain("Flush", "remove", FALSE)
  /\ UNCHANGED <<store, tmpFiles, res, nb, conc>>

(***************************************************************************)
(* Save.  fault names the step that fails, if any.                         *)
(***************************************************************************)
SaveFaults == {"none", "tempfile", "encode", "rename"}

\* Save, did it encode into the cache file itself instead of a temporary file
SaveResultInPlace(fault) ==
  IF ~Modified \/ fault = "tempfile"
    THEN [err |-> IF Modified THEN "tempfile" ELSE "nil", disk |-> disk,
          tmp |-> tmpFiles, wrote |-> FALSE, modified |-> Modified]
  ELSE IF fault = "encode" \/ Path # CachePath
    THEN [err |-> "encode", disk |-> IF Path = CachePath THEN GarbageFile ELSE disk,
          tmp |-> tmpFiles, wrote |-> TRUE, modified |-> Modified]
  ELSE [err |-> "nil", disk |-> Encode(cache), tmp |-> tmpFiles, wrote |-> TRUE,
        modified |-> Modified]

\* Save, did it not look at Modified
SaveResultAlways(fault) ==
  IF fault = "tempfile"
    THEN [err |-> "tempfile", disk |-> disk, tmp |-> tmpFiles, wrote |-> FALSE,
          modified |-> Modified]
  ELSE IF fault \in {"encode", "rename"} \/ Path # CachePath
    THEN [err |-> IF fault = "encode" THEN "encode" ELSE "rename", disk |-> disk,
          tmp |-> tmpFiles, wrote |-> TRUE, modified |-> Modified]
  ELSE [err |-> "nil", disk |-> Encode(cache), tmp |-> tmpFiles, wrote |-> TRUE,
        modified |-> Modified]

\* what Save returns and leaves on disk: the error, the cache file, the
\* temporary files, whether a temporary file was written, and the flag
SaveResult(fault) ==
  IF ~Modified
    THEN [err |-> "nil", disk |-> disk, tmp |-> tmpFiles, wrote |-> FALSE,
          modified |-> Modified]
  ELSE IF fault = "tempfile"
    THEN [err |-> "tempfile", disk |-> disk, tmp |-> tmpFiles, wrote |-> FALSE,
          modified |-> Modified]
  ELSE IF fault = "encode"
    \* os.Remove(file.Name())
    THEN [err |-> "encode", disk |-> disk, tmp |-> (tmpFiles + 1) - 1,
          wrote |-> TRUE, modified |-> Modified]
  ELSE IF fault = "rename" \/ Path # CachePath
    \* os.Rename fails (always so to the empty path); os.Remove(file.Name())
    THEN [err |-> "rename", disk |-> disk, tmp |-> (tmpFiles + 1) - 1,
          wrote |-> TRUE, modified |-> Modified]
  \* the temporary file becomes the cache file
  ELSE [err |-> "nil", disk |-> Encode(cache), tmp |-> (tmpFiles + 1) - 1,
        wrote |-> TRUE, modified |-> Modified]

Save ==
  /\ loaded
  /\ \E fault \in SaveFaults :
       LET r == SaveResult(fault)
       IN  /\ disk' = r.disk
           /\ tmpFiles' = r.tmp
           /\ Modified' = r.modified
           /\ last' = Plain("Save", r.err, r.wrote)
  /\ UNCHANGED <<loaded, cache, Path, res, nb, conc>>

(***************************************************************************)
(* Insert<Kind>, Remove<Kind>, Clear<Kind>s: the same code for each table. *)
(***************************************************************************)
\* Insert<Kind>, did it compare the four fields instead of the title
InsertResultAllFields(m, identifier, region, arch, owner, name) ==
  IF identifier \notin DOMAIN m \/ m[identifier] # Fields(region, arch, owner, name)
    THEN [map |-> MapSet(m, identifier, Fields(region, arch, owner, name)),
          modified |-> TRUE, hit |-> TRUE]
    ELSE [map |-> m, modified |-> Modified, hit |-> FALSE]

\* the table and the flag after Insert<Kind>
InsertResult(m, identifier, region, arch, owner, name) ==
  IF identifier \notin DOMAIN m \/ m[identifier][TITLE] # name
    THEN [map |-> MapSet(m, identifier, Fields(region, arch, owner, name)),
          modified |-> TRUE, hit |-> TRUE]
    ELSE [map |-> m, modified |-> Modified, hit |-> FALSE]

Insert(kind, identifier, region, arch, owner, name) ==
  LET r == InsertResult(cache[kind], identifier, region, arch, owner, name)
  IN  /\ loaded
      /\ NbRecords([cache EXCEPT ![kind] = r.map]) <= MaxRecords
      /\ cache' = [cache EXCEPT ![kind] = r.map]
      /\ Modified' = r.modified
      /\ last' = Call("Insert", kind, identifier,
                      Fields(region, arch, owner, name), "nil", r.hit, "")
      /\ UNCHANGED <<loaded, Path, disk, tmpFiles, res, nb, conc>>

\* Remove<Kind>, did it set Modified only when it deleted an entry
RemoveResultIfPresent(m, identifier) ==
  [map |-> MapDelete(m, identifier),
   modified |-> Modified \/ identifier \in DOMAIN m]

\* the table and the flag after Remove<Kind>
RemoveResult(m, identifier) == [map |-> MapDelete(m, identifier), modified |-> TRUE]

Remove(kind, identifier) ==
  LET r == RemoveResult(cache[kind], identifier)
  IN  /\ loaded
      /\ cache' = [cache EXCEPT ![kind] = r.map]
      /\ Modified' = r.modified
      /\ last' = Call("Remove", kind, identifier, ZeroFields, "nil",
                      identifier \in DOMAIN cache[kind], "")
      /\ UNCHANGED <<loaded, Path, disk, tmpFiles, res, nb, conc>>

\* Clear<Kind>s, did it leave Modified as it was
ClearResultKeepsFlag(m) == [map |-> EmptyMap, modified |-> Modified]

\* the table and the flag after Clear<Kind>s
ClearResult(m) == [map |-> EmptyMap, modified |-> TRUE]

Clear(kind) ==
  LET r == ClearResult(cache[kind])
  IN  /\ loaded
      /\ cache' = [cache EXCEPT ![kind] = r.map]
      /\ Modified' = r.modified
      /\ last' = Call("Clear", kind, EmptyString, ZeroFields, "nil", FALSE, "")
      /\ UNCHANGED <<loaded, Path, disk, tmpFiles, res, nb, conc>>

\* the identifiers and the (region, arch, owner, name) a model hands to the
\* calls of one table
InsertServer(ids, args) ==
  \E x \in ids, a \in args : Insert(IdentifierServer, x, a[1], a[2], a[3], a[4])
RemoveServer(ids) == \E x \in ids : Remove(IdentifierServer, x)
ClearServers == Clear(IdentifierServer)

InsertImage(ids, args) ==
  \E x \in ids, a \in args : Insert(IdentifierImage, x, a[1], a[2], a[3], a[4])
RemoveImage(ids) == \E x \in ids : Remove(IdentifierImage, x)
ClearImages == Clear(IdentifierImage)

InsertSnapshot(ids, args) ==
  \E x \in ids, a \in args : Insert(IdentifierSnapshot, x, a[1], a[2], a[3], a[4])
RemoveSnapshot(ids) == \E x \in ids : Remove(IdentifierSnapshot, x)
ClearSnapshots == Clear(IdentifierSnapshot)

InsertVolume(ids, args) ==
  \E x \in ids, a \in args : Insert(IdentifierVolume, x, a[1], a[2], a[3], a[4])
RemoveVolume(ids) == \E x \in ids : Remove(IdentifierVolume, x)
ClearVolumes == Clear(IdentifierVolume)

InsertBootscript(ids, args) ==
  \E x \in ids, a \in args : Insert(IdentifierBootscript, x, a[1], a[2], a[3], a[4])
RemoveBootscript(ids) == \E x \in ids : Remove(IdentifierBootscript, x)
ClearBootscripts == Clear(IdentifierBootscript)

(***************************************************************************)
(* GetNb<Kind>s: the same code for each table.                             *)
(***************************************************************************)
\* GetNb<Kind>s, did it count the records of the five tables
GetNbResultAll(kind) == NbRecords(cache)

\* len(c.<Kind>s)
GetNbResult(kind) == Cardinality(DOMAIN cache[kind])

GetNb(kind) ==
  /\ loaded
  /\ nb' = GetNbResult(kind)
  /\ last' = Call("GetNb", kind, EmptyString, ZeroFields, "nil", FALSE, "")
  /\ UNCHANGED <<store, disk, tmpFiles, res, conc>>

GetNbServers == GetNb(IdentifierServer)
GetNbImages == GetNb(IdentifierImage)
GetNbSnapshots == GetNb(IdentifierSnapshot)
GetNbVolumes == GetNb(IdentifierVolume)
GetNbBootscripts == GetNb(IdentifierBootscript)

(***************************************************************************)
(* The persistence model: one process after another loads the cache file,  *)
(* changes the tables, saves and flushes.                                  *)
(***************************************************************************)
\* the identifiers and the (region, arch, owner, name) the persistence model
\* hands to the calls; a server may have a name that is not valid UTF-8
PersistIds == {<<"i", "d", "1">>}
PersistArgs == {<<Par1, X86, Me, Web>>}
PersistServerArgs == {<<Par1, X86, Me, Web>>, <<Par1, X86, Me, WebBad>>}

Next ==
  \/ NewScalewayCache
  \/ Save
  \/ Flush
  \/ InsertServer(PersistIds, PersistServerArgs) \/ RemoveServer(PersistIds) \/ ClearServers
  \/ InsertImage(PersistIds, PersistArgs) \/ RemoveImage(PersistIds) \/ ClearImages
  \/ InsertSnapshot(PersistIds, PersistArgs) \/ RemoveSnapshot(PersistIds) \/ ClearSnapshots
  \/ InsertVolume(PersistIds, PersistArgs) \/ RemoveVolume(PersistIds) \/ ClearVolumes
  \/ InsertBootscript(PersistIds, PersistArgs) \/ RemoveBootscript(PersistIds) \/ ClearBootscripts

Spec == Init /\ [][Next]_vars

(***************************************************************************)
(* The table model: the calls that change the tables, on a loaded cache.   *)
(***************************************************************************)
NextMutate ==
  \/ NewScalewayCache
  \/ Flush
  \/ InsertServer(StoreIds, InsertArgs) \/ RemoveServer(StoreIds) \/ ClearServers
  \/ InsertImage(StoreIds, InsertArgs) \/ RemoveImage(StoreIds) \/ ClearImages
  \/ InsertSnapshot(StoreIds, InsertArgs) \/ RemoveSnapshot(StoreIds) \/ ClearSnapshots
  \/ InsertVolume(StoreIds, InsertArgs) \/ RemoveVolume(StoreIds) \/ ClearVolumes
  \/ InsertBootscript(StoreIds, InsertArgs) \/ RemoveBootscript(StoreIds) \/ ClearBootscripts

SpecMutate == Init /\ [][NextMutate]_vars


(***************************************************************************)
(* regexp and anonuuid, as far as the resolvers use them.                  *)
(*                                                                         *)
(* The strings of the model are written with letters, digits, "/", ":",    *)
(* the two long characters, and the characters "-", "_", ".", "*", "+",    *)
(* "(" and "[" that mean something in a regular expression.  They hold no  *)
(* ")" and no "]", so a "(" or a "[" is never closed.                      *)
(***************************************************************************)
UpperCase ==
  <<"A", "B", "C", "D", "E", "F", "G", "H", "I", "J", "K", "L", "M",
    "N", "O", "P", "Q", "R", "S", "T", "U", "V", "W", "X", "Y", "Z">>
LowerCase ==
  <<"a", "b", "c", "d", "e", "f", "g", "h", "i", "j", "k", "l", "m",
    "n", "o", "p", "q", "r", "s", "t", "u", "v", "w", "x", "y", "z">>
Digits == {"0", "1", "2", "3", "4", "5", "6", "7", "8", "9"}

\* [a-z0-9]
LowerOrDigit == {LowerCase[i] : i \in DOMAIN LowerCase} \cup Digits

\* the lower case of the upper case letters
ToLower ==
  [ch \in {UpperCase[i] : i \in DOMAIN UpperCase} |->
     LowerCase[CHOOSE i \in DOMAIN UpperCase : UpperCase[i] = ch]]

\* the character under (?i): upper case folds to lower case
Fold(ch) == IF ch \in DOMAIN ToLower THEN ToLower[ch] ELSE ch

\* anonuuid.IsUUID(s) == nil: s matches
\* ^[a-z0-9]{8}-[a-z0-9]{4}-[1-5][a-z0-9]{3}-[a-z0-9]{4}-[a-z0-9]{12}$
IsUUID(s) ==
  /\ Len(s) = 36
  /\ \A i \in 1..36 :
       IF i \in {9, 14, 19, 24} THEN s[i] = "-"
       ELSE IF i = 15 THEN s[i] \in {"1", "2", "3", "4", "5"}
       ELSE s[i] \in LowerOrDigit

\* regexp.MustCompile(`^user/`).ReplaceAllString(needle, "")
UserSlash == <<"u", "s", "e", "r", "/">>
StripUser(needle) ==
  IF HasPrefix(needle, UserSlash)
    THEN SubSeq(needle, Len(UserSlash) + 1, Len(needle))
    ELSE needle

RECURSIVE ReplaceSeparators(_)
\* regexp.MustCompile(`[_-]`).ReplaceAllString(needle, ".*")
ReplaceSeparators(needle) ==
  IF needle = <<>> THEN <<>>
  ELSE (IF Head(needle) \in {"_", "-"} THEN <<".", "*">> ELSE <<Head(needle)>>)
         \o ReplaceSeparators(Tail(needle))

RECURSIVE CompileFrom(_, _, _)
\* The parse of a regular expression from its i-th character on, acc being
\* the pieces parsed so far.  A piece is a character (any: "." stands for every
\* character) and how often it repeats: "1", "*" or "+".  The parse fails on
\* a "(" or "[" that is not closed and on a "*" or "+" that repeats nothing
\* or a repetition.
CompileFrom(src, i, acc) ==
  IF i > Len(src) THEN [ok |-> TRUE, pat |-> acc]
  ELSE IF src[i] \in {"(", "["} THEN [ok |-> FALSE, pat |-> <<>>]
  ELSE IF src[i] \in {"*", "+"}
    THEN IF acc = <<>> \/ acc[Len(acc)].q # "1"
           THEN [ok |-> FALSE, pat |-> <<>>]
           ELSE CompileFrom(src, i + 1, [acc EXCEPT ![Len(acc)].q = src[i]])
  ELSE CompileFrom(src, i + 1,
                   Append(acc, [any |-> src[i] = ".", c |-> Fold(src[i]), q |-> "1"]))

\* regexp.Compile(`(?i)` + src); MustCompile panics when ok is false
Compile(src) == CompileFrom(src, 1, <<>>)

\* the piece matches the character
PieceMatches(piece, ch) == piece.any \/ piece.c = Fold(ch)

RECURSIVE MatchHere(_, _, _, _)
\* the pieces from the i-th on match the text from its j-th character on
MatchHere(pat, i, text, j) ==
  IF i > Len(pat) THEN TRUE
  ELSE LET one == j <= Len(text) /\ PieceMatches(pat[i], text[j])
       IN  CASE pat[i].q = "1" -> one /\ MatchHere(pat, i + 1, text, j + 1)
             [] pat[i].q = "*" ->
                  \/ MatchHere(pat, i + 1, text, j)
                  \/ one /\ MatchHere(pat, i, text, j + 1)
             [] OTHER ->
                  /\ one
                  /\ \/ MatchHere(pat, i + 1, text, j + 1)
                     \/ MatchHere(pat, i, text, j + 1)

\* nameRegex.MatchString(text): the expression is not anchored
MatchString(pat, text) == \E j \in 1..(Len(text) + 1) : MatchHere(pat, 1, text, j)

(***************************************************************************)
(* LookUp<Kind>s.  The same code for each table, but that LookUpImages and *)
(* LookUpSnapshots strip "user/" from the needle.  RankMatch, the score of *)
(* the fuzzy library, is left out of the results.                          *)
(***************************************************************************)
\* a ScalewayResolverResult after ComputeRankMatch(needle)
Entry(identifier, kind, name, needle) ==
  [Identifier |-> identifier, Type |-> kind, Name |-> name, Needle |-> needle]

\* the orders a range over a map of these keys may take
Orders(keys) ==
  {o \in [1..Cardinality(keys) -> keys] : \A i, j \in DOMAIN o : o[i] = o[j] => i = j}

\* the entry a scan appends to exactMatches and to res for a matching record
RecordEntry(m, kind, identifier, needle) ==
  Entry(identifier, kind, m[identifier][TITLE], needle)

\* the record goes to exactMatches
IsExact(m, identifier, needle) == m[identifier][TITLE] = needle

\* IsMatch, did it take no record for an empty needle
IsMatchNotEmpty(m, identifier, needle, pat) ==
  /\ needle # EmptyString
  /\ HasPrefix(identifier, needle) \/ MatchString(pat, m[identifier][TITLE])

\* the record goes to res
IsMatch(m, identifier, needle, pat) ==
  HasPrefix(identifier, needle) \/ MatchString(pat, m[identifier][TITLE])

RECURSIVE ScanFrom(_, _, _, _, _, _)
\* for identifier, fields := range table, in the given order, from its i-th
\* key on: what it appends to exactMatches and to res
ScanFrom(m, kind, order, i, needle, pat) ==
  IF i > Len(order) THEN [exact |-> <<>>, res |-> <<>>]
  ELSE LET rest == ScanFrom(m, kind, order, i + 1, needle, pat)
           entry == <<RecordEntry(m, kind, order[i], needle)>>
       IN  [exact |-> (IF IsExact(m, order[i], needle) THEN entry ELSE <<>>)
                        \o rest.exact,
            res |-> (IF IsMatch(m, order[i], needle, pat) THEN entry ELSE <<>>)
                      \o rest.res]

\* the keys of the map removeDuplicatesResults fills
Encountered(elements) == {elements[v].Identifier : v \in DOMAIN elements}

\* removeDuplicatesResults: the last element of each identifier, in the order
\* the range over the map takes
removeDuplicatesResults(elements, order) ==
  [i \in 1..Len(order) |->
     elements[CHOOSE v \in DOMAIN elements :
                /\ elements[v].Identifier = order[i]
                /\ \A w \in DOMAIN elements :
                     elements[w].Identifier = order[i] => w <= v]]

\* Prepare, did the entry for a UUID get no name
PrepareNoName(kind, needle, acceptUUID, strips) ==
  LET scanned == IF strips THEN StripUser(needle) ELSE needle
  IN  [first |-> IF acceptUUID /\ IsUUID(needle)
                   THEN <<Entry(needle, kind, EmptyString, needle)>>
                   ELSE <<>>,
       needle |-> scanned,
       re |-> Compile(ReplaceSeparators(scanned))]

\* what a resolver has before the scan: the entry for a needle that is a UUID,
\* the needle it scans with, and the compiled expression
Prepare(kind, needle, acceptUUID, strips) ==
  LET scanned == IF strips THEN StripUser(needle) ELSE needle
  IN  [first |-> IF acceptUUID /\ IsUUID(needle)
                   THEN <<Entry(needle, kind, needle, needle)>>
                   ELSE <<>>,
       needle |-> scanned,
       re |-> Compile(ReplaceSeparators(scanned))]

LookUp(kind, needle, acceptUUID, strips) ==
  \E p \in {Prepare(kind, needle, acceptUUID, strips)} :
      /\ loaded
      /\ IF ~p.re.ok
           \* regexp.MustCompile panics
           THEN /\ res' = <<>>
                /\ last' = Call("LookUp", kind, needle, ZeroFields, "panic",
                                acceptUUID, "")
           ELSE /\ \E scan \in Orders(DOMAIN cache[kind]) :
                     LET s == ScanFrom(cache[kind], kind, scan, 1, p.needle, p.re.pat)
                         all == p.first \o s.res
                     IN  IF Len(s.exact) = 1
                           THEN res' = s.exact
                           ELSE \E out \in Orders(Encountered(all)) :
                                  res' = removeDuplicatesResults(all, out)
                /\ last' = Call("LookUp", kind, needle, ZeroFields, "nil",
                                acceptUUID, "")
      /\ UNCHANGED <<store, disk, tmpFiles, nb, conc>>

LookUpImages(needles) ==
  \E needle \in needles, acceptUUID \in BOOLEAN :
    LookUp(IdentifierImage, needle, acceptUUID, TRUE)
LookUpSnapshots(needles) ==
  \E needle \in needles, acceptUUID \in BOOLEAN :
    LookUp(IdentifierSnapshot, needle, acceptUUID, TRUE)
LookUpVolumes(needles) ==
  \E needle \in needles, acceptUUID \in BOOLEAN :
    LookUp(IdentifierVolume, needle, acceptUUID, FALSE)
LookUpBootscripts(needles) ==
  \E needle \in needles, acceptUUID \in BOOLEAN :
    LookUp(IdentifierBootscript, needle, acceptUUID, FALSE)
LookUpServers(needles) ==
  \E needle \in needles, acceptUUID \in BOOLEAN :
    LookUp(IdentifierServer, needle, acceptUUID, FALSE)

(***************************************************************************)
(* The resolver model: a cache that was loaded from its file, and one call *)
(* of a resolver on it.                                                    *)
(***************************************************************************)
\* a UUID written with one character
UUIDOf(ch) ==
  Rep(ch, 8) \o <<"-">> \o Rep(ch, 4) \o <<"-", "4">> \o Rep(ch, 3) \o <<"-">>
    \o Rep(ch, 4) \o <<"-">> \o Rep(ch, 12)

Web2 == <<"w", "e", "b", "2">>
WebUpper == <<"W", "e", "b">>
WebParen == <<"w", "e", "b", "(">>
WebDot == <<"w", "e", "b", ".">>
UserWeb == UserSlash \o Web
MyCoolServer == <<"m", "y", "_", "c", "o", "o", "l", "_", "s", "e", "r", "v", "e", "r">>
MyServer == <<"m", "y", "-", "s", "e", "r", "v", "e", "r">>

\* the identifiers of the records: a UUID, an identifier that starts with
\* "web", and one that starts with another UUID
LookIds == {UUIDOf("1"), <<"w", "e", "b", "9">>, UUIDOf("b") \o <<"x">>}

\* the titles of the records
LookTitles ==
  {EmptyString, Web, Web2, WebUpper, MyCoolServer, UserWeb, UUIDOf("b"), WebParen}

\* the needles
Needles ==
  {EmptyString, Web, MyServer, UserWeb, WebParen, WebDot, UUIDOf("1"), UUIDOf("b")}

\* the tables of at most MaxTable records
LookTables ==
  UNION {[ids -> {Fields(Par1, X86, Me, t) : t \in LookTitles}] :
           ids \in {S \in SUBSET LookIds : Cardinality(S) <= MaxTable}}

InitLookUp ==
  /\ loaded = TRUE
  /\ \E m \in LookTables : cache = [k \in Kinds |-> m]
  /\ Modified = FALSE
  /\ Path = CachePath
  /\ disk = Encode(cache)
  /\ tmpFiles = 0
  /\ last = Call("Load", 0, EmptyString, ZeroFields, "nil", FALSE, "none")
  /\ res = <<>>
  /\ nb = 0
  /\ Lock = Unlocked
  /\ threads = [t \in Threads |-> Idle(0)]
  /\ serial = NoSerial

\* the resolver is the first call on the cache
FirstCall == last.op = "Load"

NextLookUp ==
  \/ FirstCall /\ LookUpImages(Needles)
  \/ FirstCall /\ LookUpSnapshots(Needles)
  \/ FirstCall /\ LookUpVolumes(Needles)
  \/ FirstCall /\ LookUpBootscripts(Needles)
  \/ FirstCall /\ LookUpServers(Needles)

SpecLookUp == InitLookUp /\ [][NextLookUp]_vars

(***************************************************************************)
(* parseNeedle and LookUpIdentifiers.  LookUpIdentifiers holds no lock of   *)
(* its own; with one process its five calls follow one another.            *)
(***************************************************************************)
Colon == ":"

RECURSIVE SplitFrom(_, _, _)
\* strings.Split(input, ":") from the i-th character on, part being the
\* characters of the current part read so far
SplitFrom(input, i, part) ==
  IF i > Len(input) THEN <<part>>
  ELSE IF input[i] = Colon THEN <<part>> \o SplitFrom(input, i + 1, <<>>)
  ELSE SplitFrom(input, i + 1, Append(part, input[i]))

Split(input) == SplitFrom(input, 1, <<>>)

TagServer == <<"s", "e", "r", "v", "e", "r">>
TagImage == <<"i", "m", "a", "g", "e">>
TagSnapshot == <<"s", "n", "a", "p", "s", "h", "o", "t">>
TagBootscript == <<"b", "o", "o", "t", "s", "c", "r", "i", "p", "t">>
TagVolume == <<"v", "o", "l", "u", "m", "e">>

\* parseNeedle, did it take "volume" for the bootscripts
parseNeedleSwapped(input) ==
  LET parts == Split(input)
      typed(t) == [identifierType |-> t, needle |-> parts[2]]
  IN  IF Len(parts) = 2 /\ parts[1] = TagServer THEN typed(IdentifierServer)
      ELSE IF Len(parts) = 2 /\ parts[1] = TagImage THEN typed(IdentifierImage)
      ELSE IF Len(parts) = 2 /\ parts[1] = TagSnapshot THEN typed(IdentifierSnapshot)
      ELSE IF Len(parts) = 2 /\ parts[1] = TagBootscript THEN typed(IdentifierVolume)
      ELSE IF Len(parts) = 2 /\ parts[1] = TagVolume THEN typed(IdentifierBootscript)
      ELSE [identifierType |-> IdentifierUnknown, needle |-> input]

parseNeedle(input) ==
  LET parts == Split(input)
      typed(t) == [identifierType |-> t, needle |-> parts[2]]
  IN  IF Len(parts) = 2 /\ parts[1] = TagServer THEN typed(IdentifierServer)
      ELSE IF Len(parts) = 2 /\ parts[1] = TagImage THEN typed(IdentifierImage)
      ELSE IF Len(parts) = 2 /\ parts[1] = TagSnapshot THEN typed(IdentifierSnapshot)
      ELSE IF Len(parts) = 2 /\ parts[1] = TagBootscript THEN typed(IdentifierBootscript)
      ELSE IF Len(parts) = 2 /\ parts[1] = TagVolume THEN typed(IdentifierVolume)
      ELSE [identifierType |-> IdentifierUnknown, needle |-> input]

RECURSIVE BitAnd(_, _)
\* a & b of int
BitAnd(a, b) ==
  IF a = 0 \/ b = 0 THEN 0
  ELSE 2 * BitAnd(a \div 2, b \div 2) + (IF a % 2 = 1 /\ b % 2 = 1 THEN 1 ELSE 0)

\* identifierType&(IdentifierUnknown|Identifier<Kind>) > 0
Searches(identifierType, kind) ==
  BitAnd(identifierType, IdentifierUnknown + kind) > 0

\* the resolver of this table strips "user/" from its needle
Strips(kind) == kind \in {IdentifierImage, IdentifierSnapshot}

\* what LookUp<Kind>s(needle, acceptUUID) may return on the table m, for the
\* orders a range over a map may take; none when regexp.MustCompile panics
LookUpResultsIn(m, kind, needle, acceptUUID) ==
  LET p == Prepare(kind, needle, acceptUUID, Strips(kind))
  IN  IF ~p.re.ok THEN {}
      ELSE UNION {LET s == ScanFrom(m, kind, scan, 1, p.needle, p.re.pat)
                      all == p.first \o s.res
                  IN  IF Len(s.exact) = 1 THEN {s.exact}
                      ELSE {removeDuplicatesResults(all, out) :
                              out \in Orders(Encountered(all))} :
                    scan \in Orders(DOMAIN m)}

\* what LookUp<Kind>s(needle, acceptUUID) may return
LookUpResults(kind, needle, acceptUUID) ==
  LookUpResultsIn(cache[kind], kind, needle, acceptUUID)

\* the entries LookUpIdentifiers appends for the results of one resolver
Tagged(results, kind, needle) ==
  [i \in 1..Len(results) |->
     Entry(results[i].Identifier, kind, results[i].Name, needle)]

\* what one of the five blocks of LookUpIdentifiers may append
Block(identifierType, kind, needle) ==
  IF Searches(identifierType, kind)
    THEN {Tagged(r, kind, needle) : r \in LookUpResults(kind, needle, FALSE)}
    ELSE {<<>>}

LookUpIdentifiers(inputs) ==
  \E input \in inputs :
    \E p \in {parseNeedle(input)} :
      /\ loaded
      /\ IF \E kind \in Kinds : Block(p.identifierType, kind, p.needle) = {}
           \* regexp.MustCompile panics in a resolver
           THEN /\ res' = <<>>
                /\ last' = Call("LookUpIdentifiers", 0, input, ZeroFields,
                                "panic", FALSE, "")
           ELSE /\ \E servers \in Block(p.identifierType, IdentifierServer, p.needle),
                      images \in Block(p.identifierType, IdentifierImage, p.needle),
                      snapshots \in Block(p.identifierType, IdentifierSnapshot, p.needle),
                      volumes \in Block(p.identifierType, IdentifierVolume, p.needle),
                      bootscripts \in Block(p.identifierType, IdentifierBootscript, p.needle) :
                     res' = servers \o images \o snapshots \o volumes \o bootscripts
                /\ last' = Call("LookUpIdentifiers", 0, input, ZeroFields,
                                "nil", FALSE, "")
      /\ UNCHANGED <<store, disk, tmpFiles, nb, conc>>

(***************************************************************************)
(* The identifiers model: a loaded cache whose tables differ, and one call *)
(* of LookUpIdentifiers on it.                                             *)
(***************************************************************************)
\* a title with a colon
WebColon == <<"w", ":", "b">>

\* a tag, a colon and the rest
WithTag(tag, rest) == tag \o <<Colon>> \o rest

TagOther == <<"f", "o", "o">>

\* the tables of one kind
KindTables ==
  {EmptyMap,
   [x \in {<<"w", "e", "b", "9">>} |-> Fields(Par1, X86, Me, Web2)],
   [x \in {UUIDOf("1")} |-> Fields(Par1, X86, Me, WebColon)]}

\* what is looked up: with each tag, with no tag, with a tag that is none,
\* with two colons, with no rest, with an expression that does not compile
Inputs ==
  {WithTag(t, Web) : t \in {TagServer, TagImage, TagSnapshot, TagBootscript,
                            TagVolume, TagOther}}
    \cup {Web, WithTag(TagServer, WebColon), WithTag(TagVolume, EmptyString),
          WithTag(TagImage, WebParen)}

InitIdentifiers ==
  /\ loaded = TRUE
  /\ cache \in [Kinds -> KindTables]
  /\ Modified = FALSE
  /\ Path = CachePath
  /\ disk = Encode(cache)
  /\ tmpFiles = 0
  /\ last = Call("Load", 0, EmptyString, ZeroFields, "nil", FALSE, "none")
  /\ res = <<>>
  /\ nb = 0
  /\ Lock = Unlocked
  /\ threads = [t \in Threads |-> Idle(0)]
  /\ serial = NoSerial

NextIdentifiers == FirstCall /\ LookUpIdentifiers(Inputs)

SpecIdentifiers == InitIdentifiers /\ [][NextIdentifiers]_vars

(***************************************************************************)
(* The readers model: the calls that read the cache, one after another, on *)
(* a loaded cache that two calls change.                                   *)
(***************************************************************************)
ReadNeedles == {Web}
ReadInputs == {Web, WithTag(TagServer, Web)}
ReadIds == {<<"w", "e", "b", "9">>}

NextRead ==
  \/ Flush
  \/ GetNbServers \/ GetNbImages \/ GetNbSnapshots \/ GetNbVolumes \/ GetNbBootscripts
  \/ LookUpImages(ReadNeedles) \/ LookUpSnapshots(ReadNeedles)
  \/ LookUpVolumes(ReadNeedles) \/ LookUpBootscripts(ReadNeedles)
  \/ LookUpServers(ReadNeedles)
  \/ LookUpIdentifiers(ReadInputs)
  \/ RemoveServer(ReadIds)
  \/ ClearVolumes

SpecRead == InitIdentifiers /\ [][NextRead]_vars

(***************************************************************************)
(* The threads model: the threads of one process call the cache.  A call   *)
(* takes c.Lock (Lock.Lock() waits until it is free), runs its statements  *)
(* one by one, and releases the lock by its deferred Lock.Unlock(), which  *)
(* also runs when the call panics.  LookUpIdentifiers takes no lock; its   *)
(* resolvers do, one after another.                                        *)
(***************************************************************************)
\* the calls a thread makes
MaxCalls == 2

\* the order of the blocks of LookUpIdentifiers
IdentOrder ==
  <<IdentifierServer, IdentifierImage, IdentifierSnapshot, IdentifierVolume,
    IdentifierBootscript>>

\* the block of LookUpIdentifiers that runs after the block `at` (the first
\* one after 0), or 0 after the last
NextAt(identifierType, at) ==
  LET later == {i \in DOMAIN IdentOrder :
                  i > at /\ Searches(identifierType, IdentOrder[i])}
  IN  IF later = {} THEN 0
      ELSE CHOOSE i \in later : \A j \in later : i <= j

\* the call of the cache a thread is in: its call, or the resolver of its
\* block of LookUpIdentifiers
Cur(th) ==
  IF th.at = 0 THEN th.call
  ELSE Call("LookUp", IdentOrder[th.at], parseNeedle(th.call.id).needle,
            ZeroFields, th.call.err, FALSE, "")

\* the first statement of a call after Lock.Lock()
FirstPc(op) ==
  CASE op = "Insert" -> "read"
    [] op = "Remove" -> "delete"
    [] op = "Clear" -> "clear"
    [] op = "GetNb" -> "len"
    [] op = "LookUp" -> "compile"
    [] op = "Save" -> "check"

\* where a thread holds the lock
InSection == {"read", "write", "delete", "clear", "flag", "len", "compile",
              "scan", "check", "encode", "rename", "Unlock"}

\* the thread t goes on as th
Becomes(t, th) == threads' = [threads EXCEPT ![t] = th]

\* the thread t goes to pc
Goes(t, pc) == Becomes(t, [threads[t] EXCEPT !.pc = pc])

\* a thread calls the cache
Start(t, calls) ==
  /\ loaded
  /\ threads[t].pc = "idle"
  /\ threads[t].n < MaxCalls
  /\ \E call \in calls :
       Becomes(t, Thread("Lock", threads[t].n + 1, call,
                         IF call.op = "LookUpIdentifiers"
                           THEN NextAt(parseNeedle(call.id).identifierType, 0)
                           ELSE 0,
                         <<>>, NoLocal, 0, <<>>))
  /\ UNCHANGED <<store, disk, tmpFiles, last, res, nb, Lock, serial>>

\* Lock.Lock(), did it not wait
AcquireNoWait(t) ==
  /\ threads[t].pc = "Lock"
  /\ Lock' = t
  /\ Goes(t, FirstPc(Cur(threads[t]).op))
  /\ UNCHANGED <<store, disk, tmpFiles, last, res, nb, serial>>

\* c.Lock.Lock()
Acquire(t) ==
  /\ threads[t].pc = "Lock"
  /\ Lock = Unlocked
  /\ Lock' = t
  /\ Goes(t, FirstPc(Cur(threads[t]).op))
  /\ UNCHANGED <<store, disk, tmpFiles, last, res, nb, serial>>

\* fields, exists := c.<Kind>s[identifier]
InsertRead(t) ==
  /\ threads[t].pc = "read"
  /\ LET call == Cur(threads[t])
         m == cache[call.kind]
     IN  Becomes(t, [threads[t] EXCEPT
                       !.pc = "write",
                       !.local = [NoLocal EXCEPT
                                    !.exists = call.id \in DOMAIN m,
                                    !.fields = IF call.id \in DOMAIN m
                                                 THEN m[call.id] ELSE ZeroFields]])
  /\ UNCHANGED <<store, disk, tmpFiles, last, res, nb, Lock, serial>>

\* if !exists || fields[TITLE] != name { c.<Kind>s[identifier] = ...;
\* c.Modified = true }
InsertWrite(t) ==
  /\ threads[t].pc = "write"
  /\ LET call == Cur(threads[t])
         local == threads[t].local
     IN  IF ~local.exists \/ local.fields[TITLE] # call.fields[TITLE]
           THEN /\ cache' = [cache EXCEPT
                               ![call.kind] = MapSet(cache[call.kind], call.id, call.fields)]
                /\ Modified' = TRUE
           ELSE UNCHANGED <<cache, Modified>>
  /\ Goes(t, "Unlock")
  /\ UNCHANGED <<loaded, Path, disk, tmpFiles, last, res, nb, Lock, serial>>

\* delete(c.<Kind>s, identifier)
RemoveDelete(t) ==
  /\ threads[t].pc = "delete"
  /\ LET call == Cur(threads[t])
     IN  cache' = [cache EXCEPT ![call.kind] = MapDelete(cache[call.kind], call.id)]
  /\ Goes(t, "flag")
  /\ UNCHANGED <<loaded, Modified, Path, disk, tmpFiles, last, res, nb, Lock, serial>>

\* c.<Kind>s = make(map[string][MAXFIELD]string)
ClearMake(t) ==
  /\ threads[t].pc = "clear"
  /\ LET call == Cur(threads[t])
     IN  cache' = [cache EXCEPT ![call.kind] = EmptyMap]
  /\ Goes(t, "flag")
  /\ UNCHANGED <<loaded, Modified, Path, disk, tmpFiles, last, res, nb, Lock, serial>>

\* c.Modified = true of Remove<Kind> and Clear<Kind>s
SetModified(t) ==
  /\ threads[t].pc = "flag"
  /\ Modified' = TRUE
  /\ Goes(t, "Unlock")
  /\ UNCHANGED <<loaded, cache, Path, disk, tmpFiles, last, res, nb, Lock, serial>>

\* return len(c.<Kind>s)
GetNbLen(t) ==
  /\ threads[t].pc = "len"
  /\ LET call == Cur(threads[t])
     IN  Becomes(t, [threads[t] EXCEPT
                       !.pc = "Unlock",
                       !.nb = Cardinality(DOMAIN cache[call.kind])])
  /\ UNCHANGED <<store, disk, tmpFiles, last, res, nb, Lock, serial>>

\* the statements of a resolver before its loop; the range over the map
\* takes one of its orders
LookUpCompile(t) ==
  /\ threads[t].pc = "compile"
  /\ \E call \in {Cur(threads[t])} :
       \E p \in {Prepare(call.kind, call.id, call.hit, Strips(call.kind))} :
         IF ~p.re.ok
           \* regexp.MustCompile panics; the deferred Unlock runs
           THEN Becomes(t, [threads[t] EXCEPT !.pc = "Unlock", !.call.err = "panic"])
           ELSE \E order \in Orders(DOMAIN cache[call.kind]) :
                  Becomes(t, [threads[t] EXCEPT
                                !.pc = "scan",
                                !.local = [NoLocal EXCEPT
                                             !.order = order, !.i = 1, !.res = p.first]])
  /\ UNCHANGED <<store, disk, tmpFiles, last, res, nb, Lock, serial>>

\* one turn of the loop of a resolver, on the record the map holds now
LookUpScan(t) ==
  /\ threads[t].pc = "scan"
  /\ threads[t].local.i <= Len(threads[t].local.order)
  /\ \E call \in {Cur(threads[t])} :
       \E p \in {Prepare(call.kind, call.id, call.hit, Strips(call.kind))} :
         LET local == threads[t].local
             m == cache[call.kind]
             x == local.order[local.i]
             entry == <<RecordEntry(m, call.kind, x, p.needle)>>
         IN  \E isExact \in {(x \in DOMAIN m) /\ IsExact(m, x, p.needle)},
                isMatch \in {(x \in DOMAIN m) /\ IsMatch(m, x, p.needle, p.re.pat)} :
               Becomes(t, [threads[t] EXCEPT
                             !.local = [local EXCEPT
                                          !.i = local.i + 1,
                                          !.exact = IF isExact THEN local.exact \o entry
                                                    ELSE local.exact,
                                          !.res = IF isMatch THEN local.res \o entry
                                                  ELSE local.res]])
  /\ UNCHANGED <<store, disk, tmpFiles, last, res, nb, Lock, serial>>

\* the return of a resolver
LookUpReturn(t) ==
  /\ threads[t].pc = "scan"
  /\ threads[t].local.i > Len(threads[t].local.order)
  /\ LET local == threads[t].local
     IN  \E out \in Orders(Encountered(local.res)) :
           Becomes(t, [threads[t] EXCEPT
                         !.pc = "Unlock",
                         !.res = IF Len(local.exact) = 1 THEN local.exact
                                 ELSE removeDuplicatesResults(local.res, out)])
  /\ UNCHANGED <<store, disk, tmpFiles, last, res, nb, Lock, serial>>

\* if c.Modified
SaveCheck(t) ==
  /\ threads[t].pc = "check"
  /\ Goes(t, IF Modified THEN "encode" ELSE "Unlock")
  /\ UNCHANGED <<store, disk, tmpFiles, last, res, nb, Lock, serial>>

\* ioutil.TempFile and encoder.Encode(*c); when one fails Save returns its
\* error, after os.Remove(file.Name()) for the second
SaveEncode(t) ==
  /\ threads[t].pc = "encode"
  /\ \E fault \in SaveFaults \ {"rename"} :
       IF fault = "none"
         THEN /\ tmpFiles' = tmpFiles + 1
              /\ Becomes(t, [threads[t] EXCEPT
                               !.pc = "rename",
                               !.local = [NoLocal EXCEPT !.doc = Encode(cache)]])
         ELSE /\ tmpFiles' = tmpFiles
              /\ Becomes(t, [threads[t] EXCEPT !.pc = "Unlock", !.call.err = fault])
  /\ UNCHANGED <<store, disk, last, res, nb, Lock, serial>>

\* os.Rename(file.Name(), c.Path); when it fails, os.Remove(file.Name())
SaveRename(t) ==
  /\ threads[t].pc = "rename"
  /\ tmpFiles' = tmpFiles - 1
  /\ \E fault \in {"none", "rename"} :
       IF fault = "none" /\ Path = CachePath
         THEN /\ disk' = threads[t].local.doc
              /\ Goes(t, "Unlock")
         ELSE /\ disk' = disk
              /\ Becomes(t, [threads[t] EXCEPT !.pc = "Unlock", !.call.err = "rename"])
  /\ UNCHANGED <<store, last, res, nb, Lock, serial>>

\* Lock after the call, had Unlock been its last statement, not deferred
LockAfterReturnOnly(t, err) == IF err = "panic" THEN t ELSE Unlocked

\* Lock after the call: defer c.Lock.Unlock() runs when the call returns and
\* when it panics
LockAfter(t, err) == Unlocked

\* the call ends: its deferred Unlock runs; a thread whose call panicked ends,
\* a thread in LookUpIdentifiers appends the results and goes to its next block
Unlock(t) ==
  /\ threads[t].pc = "Unlock"
  /\ LET th == threads[t]
         call == Cur(th)
         next == NextAt(parseNeedle(th.call.id).identifierType, th.at)
     IN  /\ Lock' = LockAfter(t, call.err)
         /\ Becomes(t, IF call.err = "panic"
                         THEN [Idle(th.n) EXCEPT !.pc = "panicked"]
                       ELSE IF th.at > 0 /\ next # 0
                         THEN Thread("Lock", th.n, th.call, next,
                                     th.results \o Tagged(th.res, call.kind, call.id),
                                     NoLocal, 0, <<>>)
                       ELSE Idle(th.n))
  /\ serial' = [cache |-> cache, Modified |-> Modified, disk |-> disk]
  /\ UNCHANGED <<store, disk, tmpFiles, last, res, nb>>

\* the calls of the threads
ThreadCalls ==
  {Call("Insert", IdentifierServer, <<"i", "d", "1">>, Fields(Par1, X86, Me, Web),
        "nil", FALSE, ""),
   Call("Remove", IdentifierServer, <<"w", "e", "b", "9">>, ZeroFields, "nil", FALSE, ""),
   Call("Clear", IdentifierServer, EmptyString, ZeroFields, "nil", FALSE, ""),
   Call("GetNb", IdentifierServer, EmptyString, ZeroFields, "nil", FALSE, ""),
   Call("LookUp", IdentifierServer, Web, ZeroFields, "nil", FALSE, ""),
   Call("LookUp", IdentifierServer, WebParen, ZeroFields, "nil", FALSE, ""),
   Call("Save", 0, EmptyString, ZeroFields, "nil", FALSE, ""),
   Call("LookUpIdentifiers", 0, Web, ZeroFields, "nil", FALSE, "")}

\* a cache loaded from its file, with one server
InitThreads ==
  /\ loaded = TRUE
  /\ cache = [EmptyTables EXCEPT
                ![IdentifierServer] =
                  [x \in {<<"w", "e", "b", "9">>} |-> Fields(Par1, X86, Me, Web2)]]
  /\ Modified = FALSE
  /\ Path = CachePath
  /\ disk = Encode(cache)
  /\ tmpFiles = 0
  /\ last = Call("Load", 0, EmptyString, ZeroFields, "nil", FALSE, "none")
  /\ res = <<>>
  /\ nb = 0
  /\ Lock = Unlocked
  /\ threads = [t \in Threads |-> Idle(0)]
  /\ serial = [cache |-> cache, Modified |-> Modified, disk |-> disk]

NextThreads ==
  \E t \in Threads :
    \/ Start(t, ThreadCalls)
    \/ Acquire(t)
    \/ InsertRead(t) \/ InsertWrite(t)
    \/ RemoveDelete(t) \/ ClearMake(t) \/ SetModified(t)
    \/ GetNbLen(t)
    \/ LookUpCompile(t) \/ LookUpScan(t) \/ LookUpReturn(t)
    \/ SaveCheck(t) \/ SaveEncode(t) \/ SaveRename(t)
    \/ Unlock(t)

SpecThreads == InitThreads /\ [][NextThreads]_vars

\* the statements of a thread that holds the lock
Runs(t) ==
  \/ InsertRead(t) \/ InsertWrite(t)
  \/ RemoveDelete(t) \/ ClearMake(t) \/ SetModified(t)
  \/ GetNbLen(t)
  \/ LookUpCompile(t) \/ LookUpScan(t) \/ LookUpReturn(t)
  \/ SaveCheck(t) \/ SaveEncode(t) \/ SaveRename(t)
  \/ Unlock(t)

\* The scheduler runs every thread that can run, and Lock.Lock() returns in
\* a thread for which the lock stays free; a thread need not call the cache.
SpecThreadsFair ==
  /\ SpecThreads
  /\ \A t \in Threads : WF_vars(Acquire(t) \/ Runs(t))

(***************************************************************************)
(* Properties of the persistence model.                                    *)
(***************************************************************************)
\* the tables the cache file holds: what a load of it returns
FileTables == LoadResult("none").tables

\* every identifier and field of the tables is valid UTF-8
AllValidUTF8(tables) ==
  \A k \in Kinds : \A x \in DOMAIN tables[k] :
    /\ ValidUTF8(x)
    /\ \A i \in 0..(MAXFIELD - 1) : ValidUTF8(tables[k][x][i])

\* the step is a call of Save that returned no error
SaveSucceeds == last'.op = "Save" /\ last'.err = "nil"
\* the step is a call of Save that returned an error
SaveFails == last'.op = "Save" /\ last'.err # "nil"

\* C1: in every state of a loaded cache, Modified is true if and only if the
\* tables differ from the tables the cache file holds.
C1_DirtyIffDiverged == loaded => (Modified <=> cache # FileTables)

\* C2: a Save that succeeds on a modified cache resets Modified, and a Save
\* right after a successful Save writes no file.
C2_SaveResetsDirty ==
  [][/\ (SaveSucceeds /\ Modified) => ~Modified'
     /\ (last.op = "Save" /\ last.err = "nil" /\ last'.op = "Save") => ~last'.hit]_vars

\* the step is a load that returned a cache, right after a Save that wrote
\* the modified cache to the cache file
LoadAfterSave ==
  /\ last.op = "Save" /\ last.err = "nil" /\ last.hit
  /\ last'.op = "Load" /\ last'.err = "nil"

\* C3 as stated: a load right after a successful Save of a modified cache
\* returns the tables that were saved, with Modified false.
C3_RoundTripAnyStore ==
  [][LoadAfterSave => (cache' = cache /\ ~Modified')]_vars

\* C3, amended: the same for the caches whose identifiers and fields are all
\* valid UTF-8.
C3_RoundTrip ==
  [][(LoadAfterSave /\ AllValidUTF8(cache)) => (cache' = cache /\ ~Modified')]_vars

\* a load has returned, right after a Save, a cache with records of two tables
C3_Witness ==
  /\ last.op = "Load" /\ last.err = "nil" /\ last.after = "Save"
  /\ disk = Encode(cache)
  /\ AllValidUTF8(cache)
  /\ Cardinality({k \in Kinds : cache[k] # EmptyMap}) = 2

\* C4: a Save that fails leaves no temporary file, leaves the cache file, the
\* tables and Modified as they were, and Modified is still true.
C4_FailedSaveChangesNothing ==
  [][SaveFails =>
       /\ tmpFiles' = 0
       /\ disk' = disk
       /\ cache' = cache
       /\ Modified' = Modified
       /\ Modified']_vars

\* a Save has failed after it wrote a temporary file, with a cache file of
\* an earlier Save on disk
C4_Witness ==
  /\ last.op = "Save" /\ last.err \in {"encode", "rename"} /\ last.hit
  /\ Path = CachePath
  /\ disk.fmt = "json"
  /\ disk # Encode(cache)

\* C5: a Save of a cache that is not modified returns no error, writes no
\* temporary file and changes neither the cache file nor the cache.
C5_CleanSaveDoesNothing ==
  [][(last'.op = "Save" /\ ~Modified) =>
       /\ last'.err = "nil"
       /\ ~last'.hit
       /\ tmpFiles' = tmpFiles
       /\ disk' = disk
       /\ UNCHANGED store]_vars

\* a Save has returned on a cache that is not modified and has records
C5_Witness ==
  /\ last.op = "Save" /\ ~Modified
  /\ cache # EmptyTables

\* NewScalewayCache returns a cache
Loads == last'.op = "Load" /\ last'.err = "nil"

\* the cache file is there and json.Unmarshal returns an error for its content
Undecodable == disk.fmt # "absent" /\ Unmarshal(disk).err

\* the content of the cache file is not JSON
NotJSON == disk.fmt \in {"empty", "garbage"}

\* the cache is new and the cache file is a file of no bytes
FreshCache ==
  /\ loaded'
  /\ cache' = EmptyTables
  /\ ~Modified'
  /\ disk' = EmptyFile

\* C13: NewScalewayCache on a cache file whose content cannot be decoded
\* returns a cache of five empty tables with the flag false, and leaves a new
\* empty cache file.
C13_CorruptFileRecovery == [][(Loads /\ Undecodable) => FreshCache]_vars

\* C13 for the content that is not JSON (what holds of the code).
C13_NotJSONRecovery == [][(Loads /\ NotJSON) => FreshCache]_vars

\* a cache was returned for a cache file that held no JSON
C13_Witness ==
  /\ last.op = "Load"
  /\ last.err = "nil"
  /\ last.after = "none"
  /\ disk = EmptyFile
  /\ Path = NoPath

\* C14: NewScalewayCache with no cache file returns a cache of five empty
\* tables with the flag false and creates no file; a Save that follows it
\* leaves the file absent.
C14_AbsentFileStaysAbsent ==
  [][/\ (Loads /\ disk = NoFile) =>
          (loaded' /\ cache' = EmptyTables /\ ~Modified' /\ disk' = NoFile)
     /\ (last.op = "Load" /\ last.err = "nil" /\ disk = NoFile /\ last'.op = "Save") =>
          (last'.err = "nil" /\ disk' = NoFile /\ tmpFiles' = tmpFiles)]_vars

\* a cache was returned while there was no cache file, Save was called on it,
\* and there is no cache file
C14_Witness ==
  /\ loaded
  /\ last.op = "Save"
  /\ last.err = "nil"
  /\ Path = CachePath
  /\ cache = EmptyTables
  /\ ~Modified
  /\ disk = NoFile

\* the step is a call on the cache NewScalewayCache returned
OnTheCache == loaded /\ last'.op # "Load"

\* C22: no change of a table is missed by Modified: while Modified is false
\* the five tables are the tables the cache had when NewScalewayCache
\* returned it.  As steps: a call on the cache that changes a table leaves
\* Modified true, and no call on the cache makes a true Modified false.
C22_NoMutationMissed ==
  [][OnTheCache => /\ (cache' # cache => Modified')
                   /\ (Modified => Modified')]_vars

\* InsertServer with the title the record has was called on a cache just
\* loaded from a file with records: no table changed and Modified is false
C22_Witness ==
  /\ loaded
  /\ ~Modified
  /\ last.op = "Insert"
  /\ ~last.hit
  /\ cache # EmptyTables
  /\ cache = FileTables

\* Save finds no failing step: the cache file holds the encoded tables
SavesTheTables ==
  /\ SaveResult("none").err = "nil"
  /\ SaveResult("none").disk = Encode(cache)

\* the step is a call of Flush while the cache file is there
FlushesAFile == last'.op = "Flush" /\ disk.fmt # "absent"

\* C21: every cache NewScalewayCache returns (no cache file, a cache file that
\* decodes, a cache file that does not and is recovered) has the path of the
\* cache file of the user: a Save after a change writes the tables to that
\* file.
C21_LoadedCacheIsUsable ==
  loaded => (Path = CachePath /\ (Modified => SavesTheTables))

\* C21, the Flush of it: Flush on a cache NewScalewayCache returned deletes
\* the cache file.
C21_FlushDeletesTheFile == [][FlushesAFile => disk' = NoFile]_vars

\* C21 for the caches that were not recovered (what holds of the code): no
\* cache file, or a cache file that decodes.
C21_UsableUnlessRecovered ==
  (loaded /\ Path = CachePath) =>
    /\ Modified => SavesTheTables
    /\ ENABLED (Flush /\ (disk.fmt # "absent" => disk' = NoFile))

\* a recovered cache was changed, and Save, no step of it failing for another
\* reason, returned the error of the rename to the empty path
C21_Witness ==
  /\ loaded
  /\ Path = NoPath
  /\ Modified
  /\ cache # EmptyTables
  /\ last.op = "Save"
  /\ last.err = "rename"
  /\ SaveResult("none").err = "rename"

(***************************************************************************)
(* Properties of the readers model.                                        *)
(***************************************************************************)
\* the calls that read
Readers == {"Flush", "GetNb", "LookUp", "LookUpIdentifiers"}

\* C15: Flush, GetNb<Kind>s, the five resolvers and LookUpIdentifiers change
\* neither a table nor the flag; GetNb<Kind>s returns the number of
\* identifiers of its table; Flush changes nothing but the cache file, which
\* it leaves or deletes.
C15_ReadersChangeNothing ==
  [][/\ last'.op \in Readers => (cache' = cache /\ Modified' = Modified)
     /\ last'.op = "GetNb" => nb' = Cardinality(DOMAIN cache[last'.kind])
     /\ last'.op = "Flush" =>
          /\ UNCHANGED <<store, tmpFiles>>
          /\ disk' \in {disk, NoFile}]_vars

\* GetNbServers returned 1 for a cache that has one server among its three
\* records, the flag true, after the cache file was deleted
C15_Witness ==
  /\ last.op = "GetNb"
  /\ last.kind = IdentifierServer
  /\ nb = 1
  /\ NbRecords(cache) = 3
  /\ Modified
  /\ disk = NoFile

(***************************************************************************)
(* Properties of the table model.                                          *)
(***************************************************************************)
\* C6: Insert<Kind> stores [region, arch, owner, name] and sets Modified if
\* the identifier has no record or a record of another title; otherwise it
\* changes nothing.  After it the title of the record is the name, so the
\* same call once more changes nothing.
C6_Insert ==
  [][last'.op = "Insert" =>
       LET k == last'.kind
           x == last'.id
           f == last'.fields
       IN  /\ IF x \notin DOMAIN cache[k] \/ cache[k][x][TITLE] # f[TITLE]
                THEN /\ cache' = [cache EXCEPT ![k] = MapSet(cache[k], x, f)]
                     /\ Modified'
                ELSE /\ cache' = cache
                     /\ Modified' = Modified
           /\ x \in DOMAIN cache'[k]
           /\ cache'[k][x][TITLE] = f[TITLE]]_vars

\* an Insert of a record that differs from the stored one in the region only
\* has returned, on a cache that is not modified
C6_Witness ==
  /\ last.op = "Insert" /\ ~last.hit
  /\ cache[last.kind][last.id] # last.fields
  /\ ~Modified

\* C7: Remove<Kind> deletes the entry of the identifier and no other,
\* Clear<Kind>s empties the table; both set Modified and leave the other four
\* tables as they were.
C7_RemoveAndClear ==
  [][/\ last'.op = "Remove" =>
          LET k == last'.kind
              x == last'.id
          IN  /\ DOMAIN cache'[k] = DOMAIN cache[k] \ {x}
              /\ \A y \in DOMAIN cache'[k] : cache'[k][y] = cache[k][y]
              /\ \A kk \in Kinds \ {k} : cache'[kk] = cache[kk]
              /\ Modified'
     /\ last'.op = "Clear" =>
          LET k == last'.kind
          IN  /\ cache'[k] = EmptyMap
              /\ \A kk \in Kinds \ {k} : cache'[kk] = cache[kk]
              /\ Modified']_vars

\* a Remove has deleted one of the two entries of a table
C7_Witness ==
  /\ last.op = "Remove" /\ last.hit
  /\ cache[last.kind] # EmptyMap

\* C20: after Insert<Kind>(identifier, region, arch, owner, name) the record
\* of the identifier in that table is [region, arch, owner, name].
C20_InsertStoresTheFields ==
  last.op = "Insert" => cache[last.kind][last.id] = last.fields

\* C20 for the fields the call is given when the identifier is new or has
\* another title, and for the title (what holds of the code).
C20_InsertStoresTheTitle ==
  last.op = "Insert" =>
    /\ last.id \in DOMAIN cache[last.kind]
    /\ cache[last.kind][last.id][TITLE] = last.fields[TITLE]
    /\ last.hit => cache[last.kind][last.id] = last.fields

(***************************************************************************)
(* Properties of the resolver model.  `last` holds the call: its table     *)
(* (kind), its needle (id) and acceptUUID (hit).                           *)
(***************************************************************************)
\* the table the last call scanned
Scanned == cache[last.kind]

\* the needle the last call scanned with: LookUpImages and LookUpSnapshots
\* strip its "user/"
ScanNeedle ==
  IF last.kind \in {IdentifierImage, IdentifierSnapshot}
    THEN StripUser(last.id)
    ELSE last.id

\* the identifiers of the records whose title is the needle
ExactIds == {x \in DOMAIN Scanned : Scanned[x][TITLE] = ScanNeedle}

\* the identifiers of the records that match the needle by the prefix of the
\* identifier or by the title
MatchIds ==
  LET re == Compile(ReplaceSeparators(ScanNeedle))
  IN  {x \in DOMAIN Scanned :
         HasPrefix(x, ScanNeedle) \/ MatchString(re.pat, Scanned[x][TITLE])}

\* the call was given a UUID it may take for an identifier
GivenUUID == last.hit /\ IsUUID(last.id)

\* res has one entry, the record of this identifier
OnlyRecord(x) ==
  /\ Len(res) = 1
  /\ res[1].Identifier = x
  /\ res[1].Name = Scanned[x][TITLE]
  /\ res[1].Type = last.kind

\* res has one entry for each of the identifiers that match and, for a UUID
\* that was given, one for it; the entry of a record has its title
MatchesOnce ==
  /\ {res[i].Identifier : i \in DOMAIN res}
       = MatchIds \cup (IF GivenUUID THEN {last.id} ELSE {})
  /\ \A i, j \in DOMAIN res : res[i].Identifier = res[j].Identifier => i = j
  /\ \A i \in DOMAIN res :
       /\ res[i].Type = last.kind
       /\ res[i].Identifier \in DOMAIN Scanned =>
            res[i].Name = Scanned[res[i].Identifier][TITLE]

\* C8: a resolver called with a needle that is the title of exactly one
\* record of its table returns one result, that record.
C8_ExactMatchWins ==
  (last.op = "LookUp" /\ Cardinality(ExactIds) = 1) =>
    /\ last.err = "nil"
    /\ \A x \in ExactIds : OnlyRecord(x)

\* C8 for the needles whose expression compiles (what holds of the code).
C8_ExactMatchWinsIfCompiled ==
  (last.op = "LookUp" /\ last.err = "nil" /\ Cardinality(ExactIds) = 1) =>
    \A x \in ExactIds : OnlyRecord(x)

\* C9: a resolver called with a needle that is the title of no record or of
\* several returns the records that match, each identifier once and no other.
C9_AmbiguousMatch ==
  (last.op = "LookUp" /\ Cardinality(ExactIds) # 1) =>
    /\ last.err = "nil"
    /\ MatchesOnce

\* C9 for the needles whose expression compiles (what holds of the code).
C9_AmbiguousMatchIfCompiled ==
  (last.op = "LookUp" /\ last.err = "nil" /\ Cardinality(ExactIds) # 1) =>
    MatchesOnce

\* res has one entry, the needle as identifier and name
OnlyNeedle ==
  /\ Len(res) = 1
  /\ res[1].Identifier = last.id
  /\ res[1].Name = last.id
  /\ res[1].Type = last.kind

\* the call was given a UUID that is no identifier of the table
GivenUnknownUUID ==
  last.op = "LookUp" /\ GivenUUID /\ last.id \notin DOMAIN Scanned

\* C10 as stated: a resolver given, with acceptUUID, a UUID that is no
\* identifier of its table returns one entry, whose identifier and name are
\* the UUID.
C10_UUIDShortcutAnyTable == GivenUnknownUUID => OnlyNeedle

\* C10, amended: the same for the tables none of whose records matches the
\* UUID by the prefix of its identifier or by its title.
C10_UUIDShortcut == (GivenUnknownUUID /\ MatchIds = {}) => OnlyNeedle

\* a resolver was given an unknown UUID on a table of two records, neither
\* of which matches it, and has returned one entry
C10_Witness ==
  /\ GivenUnknownUUID
  /\ MatchIds = {}
  /\ Cardinality(DOMAIN Scanned) = 2
  /\ Len(res) = 1

\* the call was a resolver's, with the empty needle, on a table with records
EmptyNeedle ==
  last.op = "LookUp" /\ last.id = EmptyString /\ DOMAIN Scanned # {}

\* res has one entry for each record of the table
EveryRecord ==
  /\ Len(res) = Cardinality(DOMAIN Scanned)
  /\ {res[i].Identifier : i \in DOMAIN res} = DOMAIN Scanned
  /\ \A i \in DOMAIN res : res[i].Name = Scanned[res[i].Identifier][TITLE]

\* C12 as stated: a resolver called with the empty needle on a table that has
\* records returns every record of the table, one entry for each identifier.
C12_EmptyNeedleAnyTable == EmptyNeedle => EveryRecord

\* C12, amended: the same for the tables where the records with an empty title
\* are not exactly one.
C12_EmptyNeedle == (EmptyNeedle /\ Cardinality(ExactIds) # 1) => EveryRecord

\* a resolver was called with the empty needle on a table of two records and
\* has returned two entries
C12_Witness ==
  /\ EmptyNeedle
  /\ Cardinality(DOMAIN Scanned) = 2
  /\ Len(res) = 2

\* the identifier and the name of each entry
Named(results) ==
  [i \in DOMAIN results |-> <<results[i].Identifier, results[i].Name>>]

\* the call was a resolver's, with a needle that starts with "user/", and it
\* returned
UserNeedle ==
  last.op = "LookUp" /\ HasPrefix(last.id, UserSlash) /\ last.err = "nil"

\* res is what the resolver returns for the needle without its "user/"
AsWithoutUser ==
  Named(res) \in
    {Named(r) : r \in LookUpResultsIn(Scanned, last.kind, StripUser(last.id), last.hit)}

\* C18: each of the five resolvers, called with "user/X", returns the records
\* it returns for X on the same table.
C18_UserStrippedInEveryKind == UserNeedle => AsWithoutUser

\* C18 for LookUpImages and LookUpSnapshots (what holds of the code).
C18_UserStrippedInImagesAndSnapshots ==
  (UserNeedle /\ last.kind \in {IdentifierImage, IdentifierSnapshot}) => AsWithoutUser

\* the needle as the expression that matches each of its characters but "_"
\* and "-", which stand for any characters
Literally(needle) ==
  [i \in 1..Len(needle) |->
     IF needle[i] \in {"_", "-"}
       THEN [any |-> TRUE, c |-> ".", q |-> "*"]
       ELSE [any |-> FALSE, c |-> Fold(needle[i]), q |-> "1"]]

\* the identifiers of the records that match the needle by the prefix of the
\* identifier or, its characters taken literally, by the title
LiteralMatchIds ==
  {x \in DOMAIN Scanned :
     HasPrefix(x, ScanNeedle) \/ MatchString(Literally(ScanNeedle), Scanned[x][TITLE])}

\* res has one entry for each of the identifiers that match literally and, for
\* a UUID that was given, one for it
LiteralMatches ==
  {res[i].Identifier : i \in DOMAIN res}
    = LiteralMatchIds \cup (IF GivenUUID THEN {last.id} ELSE {})

\* the characters a regular expression takes for themselves
PlainChars ==
  {LowerCase[i] : i \in DOMAIN LowerCase} \cup {UpperCase[i] : i \in DOMAIN UpperCase}
    \cup Digits \cup {"_", "-", "/"}

\* C19: a resolver returns for every needle, and but for "_" and "-" the
\* characters of the needle match themselves in the titles: the result is the
\* one record of that title or the records that match literally.
C19_NeedleIsLiteral ==
  last.op = "LookUp" =>
    /\ last.err = "nil"
    /\ Cardinality(ExactIds) # 1 => LiteralMatches

\* C19 for the needles of letters, digits, "_", "-" and "/" (what holds of the
\* code).
C19_PlainNeedleIsLiteral ==
  (last.op = "LookUp" /\ \A i \in DOMAIN last.id : last.id[i] \in PlainChars) =>
    /\ last.err = "nil"
    /\ Cardinality(ExactIds) # 1 => LiteralMatches

\* C19 for the needles whose expression compiles: a "." of the needle matches
\* any character of a title.
C19_CompiledNeedleIsLiteral ==
  (last.op = "LookUp" /\ last.err = "nil" /\ Cardinality(ExactIds) # 1) =>
    LiteralMatches

(***************************************************************************)
(* Properties of the identifiers model.  `last` holds the call and its     *)
(* input (id).                                                             *)
(***************************************************************************)
\* the tags and their kinds
TagKinds ==
  {<<TagServer, IdentifierServer>>, <<TagImage, IdentifierImage>>,
   <<TagSnapshot, IdentifierSnapshot>>, <<TagBootscript, IdentifierBootscript>>,
   <<TagVolume, IdentifierVolume>>}

\* the input without its first n characters
Drop(input, n) == SubSeq(input, n + 1, Len(input))

HasColon(s) == \E i \in DOMAIN s : s[i] = Colon

\* the kinds to search and the needle for an input: those of the tag whose
\* "<tag>:" starts the input and the rest, when that rest is allowed;
\* otherwise the five kinds and the input
Reading(input, allowed(_)) ==
  LET tagged == {t \in TagKinds :
                   /\ HasPrefix(input, WithTag(t[1], EmptyString))
                   /\ allowed(Drop(input, Len(t[1]) + 1))}
  IN  IF tagged = {} THEN [kinds |-> Kinds, needle |-> input]
      ELSE LET t == CHOOSE t \in tagged : TRUE
           IN  [kinds |-> {t[2]}, needle |-> Drop(input, Len(t[1]) + 1)]

\* the place of a kind in the order Server, Image, Snapshot, Volume, Bootscript
Place(kind) ==
  CASE kind = IdentifierServer -> 1
    [] kind = IdentifierImage -> 2
    [] kind = IdentifierSnapshot -> 3
    [] kind = IdentifierVolume -> 4
    [] kind = IdentifierBootscript -> 5

\* the entries of res of one kind
OfKind(kind) == SelectSeq(res, LAMBDA entry : entry.Type = kind)

\* LookUpIdentifiers fails when a resolver it is to call fails; otherwise res
\* holds entries of the kinds to search only, in the order of the kinds, and
\* those of each kind are what its resolver returns for the needle
Concatenates(reading) ==
  /\ last.err = "panic" <=>
       \E kind \in reading.kinds : LookUpResults(kind, reading.needle, FALSE) = {}
  /\ last.err = "nil" =>
       /\ \A i \in DOMAIN res : res[i].Type \in reading.kinds
       /\ \A i, j \in DOMAIN res : i < j => Place(res[i].Type) <= Place(res[j].Type)
       /\ \A kind \in reading.kinds :
            Named(OfKind(kind)) \in
              {Named(r) : r \in LookUpResults(kind, reading.needle, FALSE)}

AnyRest(rest) == TRUE
NoColon(rest) == ~HasColon(rest)

\* C11 as stated: LookUpIdentifiers of "<tag>:<rest>" returns what the
\* resolver of the tag's kind returns for <rest>; of any other input, what
\* the five resolvers return for it, in the order Server, Image, Snapshot,
\* Volume, Bootscript, each entry with the type of its resolver.
C11_KindPrefixAnyRest ==
  last.op = "LookUpIdentifiers" => Concatenates(Reading(last.id, AnyRest))

\* C11, amended: the same, an input with more than one colon being one of the
\* other inputs.
C11_KindPrefix ==
  last.op = "LookUpIdentifiers" => Concatenates(Reading(last.id, NoColon))

\* "server:web" was looked up while both servers and images have a record
\* that matches "web", and one entry, a server, is the result
C11_Witness ==
  /\ last.op = "LookUpIdentifiers"
  /\ last.id = WithTag(TagServer, Web)
  /\ LookUpResults(IdentifierImage, Web, FALSE) # {<<>>}
  /\ Len(res) = 1
  /\ res[1].Type = IdentifierServer

\* "web" was looked up and the result has a server before an image before a
\* bootscript
C11_WitnessAll ==
  /\ last.op = "LookUpIdentifiers"
  /\ last.id = Web
  /\ Len(res) >= 3
  /\ res[1].Type = IdentifierServer
  /\ res[2].Type = IdentifierImage
  /\ res[Len(res)].Type = IdentifierBootscript

(***************************************************************************)
(* Properties of the threads model.                                        *)
(***************************************************************************)
\* the threads that hold the lock
Holders == {t \in Threads : threads[t].pc \in InSection}

\* the tables, the flag and the file
Shared == [cache |-> cache, Modified |-> Modified, disk |-> disk]

\* the tables, the flag and the file are what the call makes in one step of
\* those at the last release of the lock, and what it returns is what it
\* returns of those
TakesEffectAtOnce(th) ==
  LET call == Cur(th)
      m == serial.cache[call.kind]
      stores == call.id \notin DOMAIN m \/ m[call.id][TITLE] # call.fields[TITLE]
      tables(table) == [serial.cache EXCEPT ![call.kind] = table]
  IN  CASE call.op = "Insert" ->
             /\ cache = IF stores THEN tables(MapSet(m, call.id, call.fields))
                        ELSE serial.cache
             /\ Modified = (serial.Modified \/ stores)
             /\ disk = serial.disk
        [] call.op = "Remove" ->
             /\ cache = tables(MapDelete(m, call.id))
             /\ Modified
             /\ disk = serial.disk
        [] call.op = "Clear" ->
             /\ cache = tables(EmptyMap)
             /\ Modified
             /\ disk = serial.disk
        [] call.op = "GetNb" ->
             /\ Shared = serial
             /\ th.nb = Cardinality(DOMAIN m)
        [] call.op = "LookUp" ->
             /\ Shared = serial
             /\ IF call.err = "panic"
                  THEN LookUpResultsIn(m, call.kind, call.id, call.hit) = {}
                  ELSE th.res \in LookUpResultsIn(m, call.kind, call.id, call.hit)
        [] call.op = "Save" ->
             /\ cache = serial.cache
             /\ Modified = serial.Modified
             /\ disk = IF serial.Modified /\ call.err = "nil"
                        THEN Encode(serial.cache) ELSE serial.disk
             /\ tmpFiles = 0

\* C16: at most one thread is between Lock and Unlock; each call of Insert,
\* Remove, Clear, GetNb, a resolver or Save takes effect at once on the state
\* the call before it left, returns what it returns of that state, and Save
\* writes the tables of that state; nothing changes while the lock is free.
C16_CallsAreAtomic ==
  /\ Cardinality(Holders) <= 1
  /\ \A t \in Holders : Lock = t
  /\ Lock = Unlocked => Shared = serial
  /\ \A t \in Threads : threads[t].pc = "Unlock" => TakesEffectAtOnce(threads[t])

\* a thread has inserted a server and is to unlock, while the other waits for
\* the lock to look the servers up
C16_Witness ==
  \E t, u \in Threads :
    /\ threads[t].pc = "Unlock"
    /\ threads[t].call.op = "Insert"
    /\ cache # serial.cache
    /\ threads[u].pc = "Lock"
    /\ threads[u].call.op = "LookUp"

\* the thread is in no call: it has made none, its call has returned, or its
\* call has panicked
Over(t) == threads[t].pc \in {"idle", "panicked"}

\* C17: a thread never waits for the lock it holds, the lock is free when no
\* thread is in a call, and every call a thread has started is over at last.
C17_EveryCallEnds ==
  /\ [](\A t \in Threads : threads[t].pc = "Lock" => Lock # t)
  /\ []((\A t \in Threads : Over(t)) => Lock = Unlocked)
  /\ \A t \in Threads : ~Over(t) ~> Over(t)

\* a thread in LookUpIdentifiers waits for the lock before its second resolver
\* while the other thread holds it
C17_Witness ==
  \E t, u \in Threads :
    /\ threads[t].call.op = "LookUpIdentifiers"
    /\ threads[t].at = 2
    /\ threads[t].pc = "Lock"
    /\ Lock = u
    /\ u # t

=============================================================================
